---- MODULE Spec2Model ----
(***************************************************************************)
(* Model of app.py: a Streamlit script whose main() chains three stages    *)
(*   generate_text_from_image  (captioner,   local model)                  *)
(*   generate_story_from_text  (storyteller, hosted language model)        *)
(*   generate_speech_from_text (narrator,    hosted speech model + file)   *)
(* Every browser session runs main() top to bottom on each upload.  All    *)
(* sessions share the working directory, hence the uploaded image files    *)
(* and the fixed output file generated_audio.flac.                         *)
(*                                                                         *)
(* Text is a sequence of tokens; file content is a sequence of bytes,      *)
(* each byte a pair <<kind, word>> so that the origin of audio is visible. *)
(***************************************************************************)
EXTENDS Integers, Sequences, FiniteSets

\* ---------------------------------------------------------------- bounds
NumSessions == 2
MaxRuns == 2

Sessions == 1..NumSessions

\* ------------------------------------------------------- program constants
None == "None"
API_URL == "https://api-inference.huggingface.co/models/espnet/kan-bayashi_ljspeech_vits"
AUDIO_PATH == "generated_audio.flac"
MODEL_NAME == "gpt-3.5-turbo"
TEMPERATURE == 1

\* The literal text of the prompt before and after the CONTEXT substitution.
\* Neither part contains a brace, so each is one token.
TEMPLATE_HEAD == <<"You are a story teller; ... no more than 20 words; CONTEXT: ">>
TEMPLATE_TAIL == <<" STORY: ">>

\* ------------------------------------------------------ environment inputs
\* Values the two secrets can have after load_dotenv / os.getenv.
TokenValues == {None, "hf_token"}
KeyValues == {None, "sk_key"}

\* Files a user can upload: a readable JPEG or an empty (unreadable) one.
UploadedFiles ==
    { [name |-> "cat.jpg", data |-> "jpeg"],
      [name |-> "cat.jpg", data |-> "empty"] }
ImageNames == { f.name : f \in UploadedFiles }

\* Texts the captioning model can generate (its vocabulary includes braces).
Captions ==
    { <<"a", "cat">>, <<"{", "{">>, <<"{", "cat", "}">>,
      <<"a", "{", "scenario", "}">> }
\* Completions the language model can return.
Stories == { <<"once">>, <<"the", "end">> }

NoText == <<>>
NoResponse == [status_code |-> 0, content |-> <<>>]
NoFile == [exists |-> FALSE, data |-> <<>>]
Nothing == [shown |-> FALSE, scenario |-> <<>>, story |-> <<>>, audio |-> NoFile]

\* Ghost record of one run of main(): what each stage was called with, what
\* it returned, which requests went out, and the output file at run start.
FreshRun(file) ==
    [ calls |-> <<>>, capArg |-> "", capRead |-> "", capRet |-> NoText,
      tellArg |-> NoText, tellRet |-> NoText, narrArg |-> NoText,
      llmReq |-> <<>>, postReq |-> <<>>, writes |-> 0,
      failedAt |-> "", fileAtStart |-> file ]

VARIABLES
    HUGGINGFACE_API_TOKEN,  \* module global, line 16
    OPENAI_API_KEY,         \* module global / process environment, line 17
    pc,                     \* per session: position in main()
    uploaded_file,          \* per session: main's uploaded_file
    scenario,               \* per session: main's scenario
    story,                  \* per session: main's story
    response,               \* per session: narrator's response
    ui,                     \* per session: what the page shows of this run
    image_files,            \* disk: uploaded images by name
    generated_audio,        \* disk: generated_audio.flac
    run,                    \* ghost: per session record of the current run
    count,                  \* ghost: totals over all runs
    lastBody                \* ghost: body written by the last narrator return

vars == << HUGGINGFACE_API_TOKEN, OPENAI_API_KEY, pc, uploaded_file, scenario,
           story, response, ui, image_files, generated_audio, run, count,
           lastBody >>

env == << HUGGINGFACE_API_TOKEN, OPENAI_API_KEY >>

Init ==
    /\ HUGGINGFACE_API_TOKEN \in TokenValues
    /\ OPENAI_API_KEY \in KeyValues
    /\ pc = [s \in Sessions |-> "idle"]
    /\ uploaded_file = [s \in Sessions |-> [name |-> "", data |-> ""]]
    /\ scenario = [s \in Sessions |-> NoText]
    /\ story = [s \in Sessions |-> NoText]
    /\ response = [s \in Sessions |-> NoResponse]
    /\ ui = [s \in Sessions |-> Nothing]
    /\ image_files = [n \in ImageNames |-> "absent"]
    /\ generated_audio = NoFile
    /\ run = [s \in Sessions |-> FreshRun(NoFile)]
    /\ count = [runs |-> 0, captioner |-> 0, captioned |-> 0, tell |-> 0,
                llm |-> 0, told |-> 0, speech |-> 0, narrated |-> 0,
                shown |-> 0]
    /\ lastBody = <<>>

\* ------------------------------------------------------------ pure helpers

\* The f-string of lines 59-65: the scenario is pasted into the literal.
FString(scen) == TEMPLATE_HEAD \o scen \o TEMPLATE_TAIL

FmtErr == [ok |-> FALSE, text |-> <<>>]
FmtCons(head, rest) ==
    IF rest.ok THEN [ok |-> TRUE, text |-> head \o rest.text] ELSE FmtErr

\* Lines 67 and 73: PromptTemplate(template, ["scenario"]) formatted by
\* predict(scenario=value), i.e. str.format(template, scenario=value):
\* "{{" and "}}" are escapes, "{scenario}" is replaced by value, any other
\* field or a single brace raises.  Read position i of t onwards.
RECURSIVE Format(_, _, _)
Format(t, i, value) ==
    IF i > Len(t) THEN [ok |-> TRUE, text |-> <<>>]
    ELSE IF t[i] = "{" THEN
        IF i + 1 <= Len(t) /\ t[i + 1] = "{"
        THEN FmtCons(<<"{">>, Format(t, i + 2, value))
        ELSE IF i + 2 <= Len(t) /\ t[i + 1] = "scenario" /\ t[i + 2] = "}"
        THEN FmtCons(value, Format(t, i + 3, value))
        ELSE FmtErr
    ELSE IF t[i] = "}" THEN
        IF i + 1 <= Len(t) /\ t[i + 1] = "}"
        THEN FmtCons(<<"}">>, Format(t, i + 2, value))
        ELSE FmtErr
    ELSE FmtCons(<<t[i]>>, Format(t, i + 1, value))

\* Audio the speech model renders for a message: one frame per word.
Synth(message) == [i \in 1..Len(message) |-> <<"flac", message[i]>>]
\* Body of an error reply of the speech service (a JSON document).
ErrBody == << <<"json", "error">> >>

\* Replies the speech service can give to a request.
Responses(auth, message) ==
    IF auth = <<"Bearer", None>>
    THEN { [status_code |-> 401, content |-> ErrBody] }
    ELSE { [status_code |-> 200, content |-> Synth(message)],
           [status_code |-> 503, content |-> ErrBody] }

\* write(2) of buf at offset 0 of a file holding old.
Overlay(old, buf) ==
    [i \in 1..(IF Len(buf) > Len(old) THEN Len(buf) ELSE Len(old)) |->
        IF i <= Len(buf) THEN buf[i] ELSE old[i]]

Bump(field) == [count EXCEPT ![field] = @ + 1]

NoRunInProgress == \A q \in Sessions : pc[q] \in {"idle", "shown", "failed"}

\* ------------------------------------------------------------------ stages

\* Lines 112-121: a file was chosen; main saves it under its own name,
\* shows it and runs the progress bar.  A rerun redraws the page.
Upload(s) ==
    /\ pc[s] \in {"idle", "shown", "failed"}
    /\ count.runs < MaxRuns
    /\ \E f \in UploadedFiles :
        /\ uploaded_file' = [uploaded_file EXCEPT ![s] = f]
        /\ image_files' = [image_files EXCEPT ![f.name] = f.data]
    /\ scenario' = [scenario EXCEPT ![s] = NoText]
    /\ story' = [story EXCEPT ![s] = NoText]
    /\ response' = [response EXCEPT ![s] = NoResponse]
    /\ ui' = [ui EXCEPT ![s] = Nothing]
    /\ run' = [run EXCEPT ![s] = FreshRun(generated_audio)]
    /\ count' = Bump("runs")
    /\ pc' = [pc EXCEPT ![s] = "uploaded"]
    /\ UNCHANGED << env, generated_audio, lastBody >>

\* The same, when runs are executed one at a time.
UploadAlone(s) == NoRunInProgress /\ Upload(s)

\* Variant: a failure of the captioner is swallowed and an empty caption is
\* returned, so the run goes on.
generate_text_from_image_swallow(s, url) ==
    LET img == image_files[url]
        called == [run EXCEPT ![s].calls = Append(@, "captioner"),
                              ![s].capArg = url, ![s].capRead = img]
    IN  /\ \/ /\ img = "jpeg"
              /\ \E generated_text \in Captions :
                    /\ scenario' = [scenario EXCEPT ![s] = generated_text]
                    /\ run' = [called EXCEPT ![s].capRet = generated_text]
           \/ /\ run' = [called EXCEPT ![s].failedAt = "captioner"]
              /\ UNCHANGED scenario
        /\ count' = [count EXCEPT !.captioner = @ + 1, !.captioned = @ + 1]
        /\ pc' = [pc EXCEPT ![s] = "captioned"]
        /\ UNCHANGED << env, uploaded_file, story, response, ui, image_files,
                        generated_audio, lastBody >>

\* Variant: captions are memoized; once a caption was produced, later calls
\* return one without running the model.
generate_text_from_image_cached(s, url) ==
    LET img == image_files[url]
        called == [run EXCEPT ![s].calls = Append(@, "captioner"),
                              ![s].capArg = url, ![s].capRead = img]
        hit == count.captioned > 0
    IN  /\ \/ /\ img = "jpeg"
              /\ \E generated_text \in Captions :
                    /\ scenario' = [scenario EXCEPT ![s] = generated_text]
                    /\ run' = [called EXCEPT ![s].capRet = generated_text]
              /\ count' = [count EXCEPT
                              !.captioner = IF hit THEN @ ELSE @ + 1,
                              !.captioned = @ + 1]
              /\ pc' = [pc EXCEPT ![s] = "captioned"]
           \/ /\ run' = [called EXCEPT ![s].failedAt = "captioner"]
              /\ count' = Bump("captioner")
              /\ pc' = [pc EXCEPT ![s] = "failed"]
              /\ UNCHANGED scenario
        /\ UNCHANGED << env, uploaded_file, story, response, ui, image_files,
                        generated_audio, lastBody >>

\* Lines 43-49: load the captioning pipeline, read the image at url, return
\* the first candidate's text.  An unreadable image or a model failure
\* raises; nothing in main catches it.
generate_text_from_image(s, url) ==
    LET img == image_files[url]
        called == [run EXCEPT ![s].calls = Append(@, "captioner"),
                              ![s].capArg = url, ![s].capRead = img]
    IN  /\ \/ /\ img = "jpeg"
              /\ \E generated_text \in Captions :
                    /\ scenario' = [scenario EXCEPT ![s] = generated_text]
                    /\ run' = [called EXCEPT ![s].capRet = generated_text]
              /\ count' = [count EXCEPT !.captioner = @ + 1, !.captioned = @ + 1]
              /\ pc' = [pc EXCEPT ![s] = "captioned"]
           \/ /\ run' = [called EXCEPT ![s].failedAt = "captioner"]
              /\ count' = Bump("captioner")
              /\ pc' = [pc EXCEPT ![s] = "failed"]
              /\ UNCHANGED scenario
        /\ UNCHANGED << env, uploaded_file, story, response, ui, image_files,
                        generated_audio, lastBody >>

\* Lines 59-77: build the prompt, construct the chat model (which refuses to
\* be built without an API key), send one completion request.
generate_story_from_text(s, scen) ==
    LET prompt_template == FString(scen)
        prompt == Format(prompt_template, 1, scen)
        called == [run EXCEPT ![s].calls = Append(@, "storyteller"),
                              ![s].tellArg = scen]
        request == [prompt |-> prompt.text, model_name |-> MODEL_NAME,
                    temperature |-> TEMPERATURE]
        sent == [called EXCEPT ![s].llmReq = Append(@, request)]
    IN  /\ IF OPENAI_API_KEY = None \/ ~prompt.ok
           THEN /\ run' = [called EXCEPT ![s].failedAt = "storyteller"]
                /\ count' = Bump("tell")
                /\ pc' = [pc EXCEPT ![s] = "failed"]
                /\ UNCHANGED story
           ELSE \/ /\ \E generated_story \in Stories :
                        /\ story' = [story EXCEPT ![s] = generated_story]
                        /\ run' = [sent EXCEPT ![s].tellRet = generated_story]
                   /\ count' = [count EXCEPT !.tell = @ + 1, !.llm = @ + 1,
                                             !.told = @ + 1]
                   /\ pc' = [pc EXCEPT ![s] = "told"]
                \/ /\ run' = [sent EXCEPT ![s].failedAt = "storyteller"]
                   /\ count' = [count EXCEPT !.tell = @ + 1, !.llm = @ + 1]
                   /\ pc' = [pc EXCEPT ![s] = "failed"]
                   /\ UNCHANGED story
        /\ UNCHANGED << env, uploaded_file, scenario, response, ui,
                        image_files, generated_audio, lastBody >>

\* Variant: the story is posted under the key "text".
generate_speech_from_text_key(s, message) ==
    LET headers == <<"Bearer", HUGGINGFACE_API_TOKEN>>
        payloads == [text |-> message]
        request == [url |-> API_URL, headers |-> headers, json |-> payloads]
        sent == [run EXCEPT ![s].calls = Append(@, "narrator"),
                            ![s].narrArg = message,
                            ![s].postReq = Append(@, request)]
    IN  /\ count' = Bump("speech")
        /\ \/ /\ \E reply \in Responses(headers, message) :
                    response' = [response EXCEPT ![s] = reply]
              /\ run' = sent
              /\ pc' = [pc EXCEPT ![s] = "posted"]
           \/ /\ run' = [sent EXCEPT ![s].failedAt = "narrator"]
              /\ pc' = [pc EXCEPT ![s] = "failed"]
              /\ UNCHANGED response
        /\ UNCHANGED << env, uploaded_file, scenario, story, ui, image_files,
                        generated_audio, lastBody >>

\* Variant: the output file is opened (hence truncated) before the POST.
generate_speech_from_text_open_first(s, message) ==
    LET headers == <<"Bearer", HUGGINGFACE_API_TOKEN>>
        payloads == [inputs |-> message]
        request == [url |-> API_URL, headers |-> headers, json |-> payloads]
        sent == [run EXCEPT ![s].calls = Append(@, "narrator"),
                            ![s].narrArg = message,
                            ![s].postReq = Append(@, request)]
    IN  /\ count' = Bump("speech")
        /\ generated_audio' = [exists |-> TRUE, data |-> <<>>]
        /\ \/ /\ \E reply \in Responses(headers, message) :
                    response' = [response EXCEPT ![s] = reply]
              /\ run' = sent
              /\ pc' = [pc EXCEPT ![s] = "posted"]
           \/ /\ run' = [sent EXCEPT ![s].failedAt = "narrator"]
              /\ pc' = [pc EXCEPT ![s] = "failed"]
              /\ UNCHANGED response
        /\ UNCHANGED << env, uploaded_file, scenario, story, ui, image_files,
                        lastBody >>

\* Lines 86-92: one POST of {"inputs": message} with the bearer header.  The
\* reply is kept whatever its status; only a transport failure raises.
generate_speech_from_text(s, message) ==
    LET headers == <<"Bearer", HUGGINGFACE_API_TOKEN>>
        payloads == [inputs |-> message]
        request == [url |-> API_URL, headers |-> headers, json |-> payloads]
        sent == [run EXCEPT ![s].calls = Append(@, "narrator"),
                            ![s].narrArg = message,
                            ![s].postReq = Append(@, request)]
    IN  /\ count' = Bump("speech")
        /\ \/ /\ \E reply \in Responses(headers, message) :
                    response' = [response EXCEPT ![s] = reply]
              /\ run' = sent
              /\ pc' = [pc EXCEPT ![s] = "posted"]
           \/ /\ run' = [sent EXCEPT ![s].failedAt = "narrator"]
              /\ pc' = [pc EXCEPT ![s] = "failed"]
              /\ UNCHANGED response
        /\ UNCHANGED << env, uploaded_file, scenario, story, ui, image_files,
                        generated_audio, lastBody >>

\* Variant: the file is opened for update ("r+b"), which keeps its content.
NarratorOpen_keep(s) ==
    /\ pc[s] = "posted"
    /\ generated_audio' = [exists |-> TRUE, data |-> generated_audio.data]
    /\ pc' = [pc EXCEPT ![s] = "opened"]
    /\ UNCHANGED << env, uploaded_file, scenario, story, response, ui,
                    image_files, run, count, lastBody >>

\* Variant: the file is opened only while no other session has it open or
\* has written it and not yet played it.
NarratorOpen_locked(s) ==
    /\ pc[s] = "posted"
    /\ \A q \in Sessions \ {s} : pc[q] \notin {"opened", "narrated"}
    /\ generated_audio' = [exists |-> TRUE, data |-> <<>>]
    /\ pc' = [pc EXCEPT ![s] = "opened"]
    /\ UNCHANGED << env, uploaded_file, scenario, story, response, ui,
                    image_files, run, count, lastBody >>

\* Line 93: open("generated_audio.flac", "wb") creates or truncates the file.
NarratorOpen(s) ==
    /\ pc[s] = "posted"
    /\ generated_audio' = [exists |-> TRUE, data |-> <<>>]
    /\ pc' = [pc EXCEPT ![s] = "opened"]
    /\ UNCHANGED << env, uploaded_file, scenario, story, response, ui,
                    image_files, run, count, lastBody >>

\* Line 94 and the end of the with block: the buffered body is written at
\* offset 0 of whatever the file holds by then, and the narrator returns.
NarratorWrite(s) ==
    /\ pc[s] = "opened"
    /\ generated_audio' =
          [exists |-> TRUE,
           data |-> Overlay(generated_audio.data, response[s].content)]
    /\ run' = [run EXCEPT ![s].writes = @ + 1]
    /\ count' = Bump("narrated")
    /\ lastBody' = response[s].content
    /\ pc' = [pc EXCEPT ![s] = "narrated"]
    /\ UNCHANGED << env, uploaded_file, scenario, story, response, ui,
                    image_files >>

\* ------------------------------------------------------------------- main

\* Line 122
Main122(s) ==
    /\ pc[s] = "uploaded"
    /\ generate_text_from_image(s, uploaded_file[s].name)

\* Line 123
Main123(s) ==
    /\ pc[s] = "captioned"
    /\ generate_story_from_text(s, scenario[s])

\* Variant: the narrator is handed the scenario.
Main124_scenario(s) ==
    /\ pc[s] = "told"
    /\ generate_speech_from_text(s, scenario[s])

\* Line 124
Main124(s) ==
    /\ pc[s] = "told"
    /\ generate_speech_from_text(s, story[s])

\* Lines 126-131: the two expanders and st.audio, which reads the file.
Main126(s) ==
    /\ pc[s] = "narrated"
    /\ ui' = [ui EXCEPT ![s] = [shown |-> TRUE, scenario |-> scenario[s],
                                story |-> story[s], audio |-> generated_audio]]
    /\ count' = Bump("shown")
    /\ pc' = [pc EXCEPT ![s] = "shown"]
    /\ UNCHANGED << env, uploaded_file, scenario, story, response,
                    image_files, generated_audio, run, lastBody >>

\* Sessions running main() simultaneously, one script thread each.
Next ==
    \E s \in Sessions :
        \/ Upload(s)
        \/ Main122(s)
        \/ Main123(s)
        \/ Main124(s)
        \/ NarratorOpen(s)
        \/ NarratorWrite(s)
        \/ Main126(s)

Spec == Init /\ [][Next]_vars

\* Runs executed one at a time.
SeqNext ==
    \E s \in Sessions :
        \/ UploadAlone(s)
        \/ Main122(s)
        \/ Main123(s)
        \/ Main124(s)
        \/ NarratorOpen(s)
        \/ NarratorWrite(s)
        \/ Main126(s)

SeqSpec == Init /\ [][SeqNext]_vars

TypeOK ==
    /\ pc \in [Sessions -> {"idle", "uploaded", "captioned", "told", "posted",
                            "opened", "narrated", "shown", "failed"}]
    /\ count.runs <= MaxRuns

\* ----------------------------------------------------------------- claims

StageOrder == <<"captioner", "storyteller", "narrator">>
IsPrefix(a, b) == Len(a) <= Len(b) /\ \A i \in 1..Len(a) : a[i] = b[i]
Pending(p) == Cardinality({s \in Sessions : pc[s] = p})

\* C1: in every run the stages are invoked in the order captioner,
\* storyteller, narrator, each after the previous one returned; the
\* storyteller is called with the string the captioner returned in this run
\* and the narrator with the string the storyteller returned in this run.
C1_LinearPipeline ==
    \A s \in Sessions :
        LET r == run[s]
        IN  /\ IsPrefix(r.calls, StageOrder)
            /\ Len(r.calls) >= 2 => r.capRet # NoText /\ r.tellArg = r.capRet
            /\ Len(r.calls) >= 3 => r.tellRet # NoText /\ r.narrArg = r.tellRet

C1_Witness ==
    \E s \in Sessions :
        /\ pc[s] = "shown"
        /\ run[s].calls = StageOrder
        /\ run[s].narrArg = story[s]
        /\ run[s].tellArg = scenario[s]

\* C2: a stage that raises aborts the run: it was invoked once, no later
\* stage is invoked and no request of a later stage goes out.  An image the
\* captioner cannot read fails the run in the captioner, before any request
\* to the language-model or speech service.
C2_FailureAborts ==
    \A s \in Sessions :
        LET r == run[s]
        IN  /\ (r.failedAt # "") <=> (pc[s] = "failed")
            /\ r.failedAt = "captioner" =>
                    r.calls = <<"captioner">> /\ r.llmReq = <<>> /\ r.postReq = <<>>
            /\ r.failedAt = "storyteller" =>
                    /\ r.calls = <<"captioner", "storyteller">>
                    /\ Len(r.llmReq) <= 1
                    /\ r.postReq = <<>>
            /\ r.failedAt = "narrator" =>
                    r.calls = StageOrder /\ Len(r.llmReq) = 1 /\ Len(r.postReq) = 1
            /\ r.capRead = "empty" =>
                    r.failedAt = "captioner" /\ r.llmReq = <<>> /\ r.postReq = <<>>

C2_Witness ==
    \E s \in Sessions :
        /\ pc[s] = "failed"
        /\ run[s].capRead = "empty"
        /\ run[s].failedAt = "captioner"
        /\ count.llm = 0 /\ count.speech = 0

\* C3: with the language-model key absent no request goes to the language
\* model, and with the speech token absent the narrator fails without a
\* POST and without writing the file.
C3_NoCallWithoutCredential ==
    \A s \in Sessions :
        /\ OPENAI_API_KEY = None => run[s].llmReq = <<>>
        /\ HUGGINGFACE_API_TOKEN = None =>
                run[s].postReq = <<>> /\ run[s].writes = 0

\* C4: the narrator goes on to write the file only after a successful audio
\* reply, so generated_audio.flac never holds anything but audio.
C4_OnlyAudioPersisted ==
    /\ \A s \in Sessions :
            pc[s] \in {"opened", "narrated", "shown"} =>
                response[s].status_code = 200
    /\ \A i \in 1..Len(generated_audio.data) :
            generated_audio.data[i][1] = "flac"

\* C5: a run that fails surfaces nothing to the page and has not written
\* the output file, and at the moment it fails the file holds what it held
\* when the run started.
C5_NoPartialResult ==
    /\ [](\A s \in Sessions :
            pc[s] = "failed" => ui[s] = Nothing /\ run[s].writes = 0)
    /\ [][\A s \in Sessions :
            (pc[s] # "failed" /\ pc'[s] = "failed") =>
                generated_audio' = run'[s].fileAtStart]_vars

C5_Witness ==
    \E s \in Sessions :
        /\ pc[s] = "failed"
        /\ run[s].failedAt = "narrator"
        /\ run[s].fileAtStart.exists
        /\ generated_audio = run[s].fileAtStart
        /\ Len(generated_audio.data) > 0

\* C6: a call of the narrator issues exactly one POST, to the fixed
\* endpoint, whose JSON body has the single key "inputs" with the narrator's
\* argument as value; no POST goes out before the narrator is called.
C6_OnePost ==
    \A s \in Sessions :
        LET r == run[s]
        IN  IF Len(r.calls) = 3
            THEN /\ Len(r.postReq) = 1
                 /\ r.postReq[1].url = API_URL
                 /\ DOMAIN r.postReq[1].json = {"inputs"}
                 /\ r.postReq[1].json.inputs = r.narrArg
            ELSE r.postReq = <<>>

C6_Witness ==
    \E s \in Sessions :
        /\ pc[s] = "narrated"
        /\ Len(run[s].postReq) = 1
        /\ run[s].postReq[1].json.inputs = story[s]

\* C7: with runs executed one at a time, when the narrator has returned the
\* file holds exactly the body of its reply, and whenever no narrator is
\* between opening and writing, the file holds the body of the last reply
\* that was written (nothing before the first).
C7_FileIsLastBody ==
    /\ \A s \in Sessions :
            pc[s] = "narrated" =>
                generated_audio = [exists |-> TRUE, data |-> response[s].content]
    /\ Pending("opened") = 0 =>
            IF count.narrated = 0
            THEN generated_audio.data = <<>>
            ELSE generated_audio.exists /\ generated_audio.data = lastBody

C7_Witness ==
    \E s \in Sessions :
        /\ pc[s] = "narrated"
        /\ count.narrated = 2
        /\ Len(run[s].fileAtStart.data) > Len(response[s].content)
        /\ generated_audio.data = response[s].content

\* C8: nothing is reused between runs: the captioner has run once for every
\* run that reached it, the storyteller once for every caption returned,
\* every story returned came from its own language-model request, the speech
\* service got one POST for every story returned, and a completed run made
\* exactly one request to each service.
C8_NoReuse ==
    /\ count.captioner = count.runs - Pending("uploaded")
    /\ count.tell = count.captioned - Pending("captioned")
    /\ count.told <= count.llm /\ count.llm <= count.tell
    /\ count.speech = count.told - Pending("told")
    /\ count.shown <= count.captioner
    /\ count.shown <= count.llm
    /\ count.shown <= count.speech
    /\ \A s \in Sessions :
            pc[s] = "shown" =>
                /\ run[s].calls = StageOrder
                /\ Len(run[s].llmReq) = 1
                /\ Len(run[s].postReq) = 1

C8_Witness ==
    /\ count.shown = 2
    /\ \E s, q \in Sessions :
            /\ s # q
            /\ pc[s] = "shown" /\ pc[q] = "shown"
            /\ uploaded_file[s] = uploaded_file[q]
    /\ count.captioner = 2 /\ count.llm = 2 /\ count.speech = 2

\* C9: every prompt submitted to the language model is the fixed template
\* with the storyteller's argument embedded verbatim once at CONTEXT, sent
\* with model gpt-3.5-turbo and temperature 1.
C9_PromptVerbatim ==
    \A s \in Sessions :
        \A i \in 1..Len(run[s].llmReq) :
            LET request == run[s].llmReq[i]
            IN  /\ request.prompt =
                        TEMPLATE_HEAD \o run[s].tellArg \o TEMPLATE_TAIL
                /\ request.model_name = "gpt-3.5-turbo"
                /\ request.temperature = 1

\* C10: nothing keeps two simultaneous runs apart on generated_audio.flac: a
\* session that is about to open, write or play the file can always do so,
\* whatever the other sessions are doing with it.
C10_NoMutualExclusion ==
    \A s \in Sessions :
        /\ pc[s] = "posted" => ENABLED NarratorOpen(s)
        /\ pc[s] = "opened" => ENABLED NarratorWrite(s)
        /\ pc[s] = "narrated" => ENABLED Main126(s)

\* A run presents audio that was synthesized from the other run's story.
C10_Witness ==
    \E s \in Sessions : \E q \in Sessions \ {s} :
        /\ pc[s] = "shown"
        /\ response[s].status_code = 200
        /\ response[q].status_code = 200
        /\ story[s] # story[q]
        /\ ui[s].audio.data = Synth(story[q])
        /\ ui[s].audio.data # Synth(story[s])

====
